---- MODULE Spec2Model ----
(***************************************************************************)
(* A model of TorFleet.py (TorManager): the registry of Tor instances, the *)
(* torrc builder, the identity and throughput probes, the per-instance     *)
(* attempt loop and the fleet ranking.                                     *)
(*                                                                         *)
(* Conventions.  Python None is the empty tuple <<>> and a value v that    *)
(* may be None is <<v>>.  A response text is the tuple of its              *)
(* '.'-separated parts after strip() (so "" is <<"">> and "1.2.3.4" is     *)
(* <<"1","2","3","4">>).  Latencies are whole milliseconds, throughput is  *)
(* in hundredths of a Mbps (1.60 Mbps is 160).                             *)
(***************************************************************************)
EXTENDS Integers, Sequences, FiniteSets, TLC

None == <<>>
Some(v) == <<v>>

\* ------------------------------------------------------------------------
\* Bounds of the model
\* ------------------------------------------------------------------------
MaxAttempts == 2
MaxRanked == 3
MaxBridgeLines == 2
MaxClock == 4
MaxJobs == 2

\* ------------------------------------------------------------------------
\* Small helpers
\* ------------------------------------------------------------------------
Range(s) == {s[i] : i \in 1..Len(s)}

\* Python's round(): the nearest integer to n/d, ties to the even one.
RoundHalfEven(n, d) ==
    LET q == n \div d
        r == n % d
    IN  IF 2 * r > d \/ (2 * r = d /\ q % 2 = 1) THEN q + 1 ELSE q

\* str.upper() on the strings the model uses.
Upper(s) ==
    CASE s = "us" -> "US"
      [] s = "fr" -> "FR"
      [] s = "usa" -> "USA"
      [] s = "u1" -> "U1"
      [] OTHER -> s

\* ------------------------------------------------------------------------
\* get_ip_and_location
\* ------------------------------------------------------------------------
\* `if ip` on a response text: neither None nor the empty string.
Truthy(text) == text # None /\ text # <<"">>

\* len(ip.split('.')) == 4
FourParts(text) == Len(text) = 4

\* An iteration that does not break.
IpStep_NoBreak(s, r) ==
    IF r.kind = "exc"
    THEN [s EXCEPT !.calls = @ + 1]
    ELSE [ip |-> r.text, ping |-> r.ms, done |-> FALSE, calls |-> s.calls + 1]

\* One iteration of the loop over ip_services: s holds ip, ping_time, whether
\* the loop has left by break, and the number of requests made so far; r is
\* the answer to this iteration's request.
IpStep(s, r) ==
    IF r.kind = "exc"
    THEN [s EXCEPT !.calls = @ + 1]
    ELSE [ip |-> r.text, ping |-> r.ms,
          done |-> Truthy(r.text) /\ FourParts(r.text),
          calls |-> s.calls + 1]

\* ip = None, ping_time = 9999
IpStart == [ip |-> None, ping |-> 9999, done |-> FALSE, calls |-> 0]

RECURSIVE IpCascade(_, _, _)
IpCascade(resp, i, s) ==
    IF i > Len(resp) \/ s.done THEN s
    ELSE IpCascade(resp, i + 1, IpStep(s, resp[i]))

\* One iteration of the loop over location_services: g holds whether the loop
\* has returned, with what, and the number of requests made so far.
GeoStep(g, r) ==
    IF r.kind = "exc" \/ r.status # 200
    THEN [g EXCEPT !.calls = @ + 1]
    ELSE LET country == Upper(r.country)
             city == IF r.city = None THEN "Unknown" ELSE r.city[1]
         IN  IF country # "" /\ Len(country) = 2
             THEN [found |-> TRUE, country |-> country, city |-> city,
                   calls |-> g.calls + 1]
             ELSE [g EXCEPT !.calls = @ + 1]

\* The pair of the return without an ip.
GeoStart_Error == [found |-> FALSE, country |-> "Error", city |-> "No IP",
                   calls |-> 0]

\* What the function returns when the loop ends without a return is the
\* "Unknown" pair.
GeoStart == [found |-> FALSE, country |-> "Unknown", city |-> "Unknown",
             calls |-> 0]

RECURSIVE GeoCascade(_, _, _)
GeoCascade(resp, j, g) ==
    IF j > Len(resp) \/ g.found THEN g
    ELSE GeoCascade(resp, j + 1, GeoStep(g, resp[j]))

\* return None, "Error", "No IP", 9999
NoIp(ipCalls) ==
    [ip |-> None, country |-> "Error", city |-> "No IP", ping |-> 9999,
     ipCalls |-> ipCalls, geoCalls |-> 0]

\* The two other returns: ip, country, city, ping_time.
Located(a, g) ==
    [ip |-> a.ip, country |-> g.country, city |-> g.city, ping |-> a.ping,
     ipCalls |-> a.calls, geoCalls |-> g.calls]

\* get_ip_and_location(port) when the ip services answer ipResp and the
\* location services answer geoResp.  ipCalls and geoCalls count the
\* requests made, by cascade.
get_ip_and_location(ipResp, geoResp) ==
    LET a == IpCascade(ipResp, 1, IpStart)
    IN  IF ~Truthy(a.ip) THEN NoIp(a.calls)
        ELSE Located(a, GeoCascade(geoResp, 1, GeoStart))

\* ------------------------------------------------------------------------
\* test_speed
\* ------------------------------------------------------------------------
\* round(bits / (seconds * 1000000), 2) in hundredths of a Mbps, for size
\* bytes received in ms milliseconds.
DownloadMbps(size, ms) == RoundHalfEven(size * 4, ms * 5)

\* if download_time > 0 and actual_size > 1000
DownloadCounts(size, ms) == ms > 0 /\ size > 1000

\* The loop over test_data from url i on.
RECURSIVE DownloadCascade(_, _)
DownloadCascade(dl, i) ==
    IF i > Len(dl)
    THEN [measured |-> FALSE, speed |-> 0, calls |-> Len(dl)]
    ELSE IF dl[i].kind = "ok" /\ dl[i].status = 200
            /\ DownloadCounts(dl[i].size, dl[i].ms)
         THEN [measured |-> TRUE, speed |-> DownloadMbps(dl[i].size, dl[i].ms),
               calls |-> i]
         ELSE DownloadCascade(dl, i + 1)

\* The three status requests of the fallback, from request i on: the ping
\* times gathered, or raised when a request throws (which leaves the try
\* block).
RECURSIVE PingLoop(_, _, _)
PingLoop(st, i, pings) ==
    IF i > Len(st)
    THEN [raised |-> FALSE, pings |-> pings, calls |-> Len(st)]
    ELSE IF st[i].kind = "exc"
         THEN [raised |-> TRUE, pings |-> pings, calls |-> i]
         ELSE PingLoop(st, i + 1,
                       IF st[i].status = 200 THEN Append(pings, st[i].ms)
                       ELSE pings)

RECURSIVE SumSeq(_)
SumSeq(s) == IF s = <<>> THEN 0 ELSE Head(s) + SumSeq(Tail(s))

\* The estimate without its floor.
EstimateMbps_NoFloor(total, n) == 10 * RoundHalfEven(1000 * n * 10, total)

\* round(max(0.1, 10 / (avg_ping / 100)), 1) in hundredths of a Mbps, where
\* avg_ping = total / n: 10 / (avg_ping / 100) is 1000 * n / total.
EstimateMbps(total, n) ==
    IF 1000 * n * 10 < total
    THEN 10
    ELSE 10 * RoundHalfEven(1000 * n * 10, total)

\* The fallback block: the estimate, or no estimate (the block raised, on a
\* request or on the division by a zero average, or no request returned 200).
Fallback(st) ==
    LET p == PingLoop(st, 1, <<>>)
        total == SumSeq(p.pings)
    IN  IF p.raised \/ p.pings = <<>> \/ total = 0
        THEN [estimated |-> FALSE, speed |-> 0, calls |-> p.calls,
              avg |-> None]
        ELSE [estimated |-> TRUE, speed |-> EstimateMbps(total, Len(p.pings)),
              calls |-> p.calls, avg |-> <<total, Len(p.pings)>>]

\* test_speed(port) when the download urls answer dl and the status
\* requests answer st.
test_speed(dl, st) ==
    LET d == DownloadCascade(dl, 1)
    IN  IF d.measured
        THEN [speed |-> d.speed, path |-> "download", dlCalls |-> d.calls,
              stCalls |-> 0, avg |-> None]
        ELSE LET f == Fallback(st)
             IN  [speed |-> f.speed,
                  path |-> IF f.estimated THEN "fallback" ELSE "failed",
                  dlCalls |-> d.calls, stCalls |-> f.calls, avg |-> f.avg]

\* ------------------------------------------------------------------------
\* detect_bridge_type, parse_bridge_input
\* ------------------------------------------------------------------------
\* A bridge line is the tuple of its blank-separated words.  `pat in
\* word.lower()` for the words the model uses (no pattern holds a blank, so a
\* pattern is in a line just when it is in one of its words).
WordHas(word, pat) ==
    CASE pat = "obfs4" -> word \in {"obfs4", "OBFS4"}
      [] pat = "snowflake" -> word = "snowflake"
      [] pat = "meek-azure" -> word = "meek-azure"
      [] pat = "meek_lite" -> word = "meek_lite"
      [] pat = "webtunnel" -> word = "webtunnel"
      [] OTHER -> FALSE

LineHas(line, pat) == \E k \in 1..Len(line) : WordHas(line[k], pat)

\* line.startswith("Bridge"), for the words the model uses.
StartsWithBridge(line) == line[1] \in {"Bridge", "BridgeRelay"}

detect_bridge_type(line) ==
    IF LineHas(line, "obfs4") THEN "obfs4"
    ELSE IF LineHas(line, "snowflake") THEN "snowflake"
    ELSE IF LineHas(line, "meek-azure") \/ LineHas(line, "meek_lite")
         THEN "meek-azure"
    ELSE IF LineHas(line, "webtunnel") THEN "webtunnel"
    ELSE "unknown"

\* parse_bridge_input on the non-empty stripped lines of the input: the
\* bridge lines and the set of types detected.
BridgeLines(lines) ==
    [k \in 1..Len(lines) |->
        IF StartsWithBridge(lines[k]) THEN lines[k]
        ELSE <<"Bridge">> \o lines[k]]

BridgeTypes(lines) ==
    {detect_bridge_type(BridgeLines(lines)[k]) : k \in 1..Len(lines)}

\* The values parse_bridge_input may return for a non-empty input:
\* list(bridge_types)[0] is any member of the set.
parse_bridge_input(lines) ==
    {[lines |-> BridgeLines(lines), type |-> t] : t \in BridgeTypes(lines)}

\* ------------------------------------------------------------------------
\* create_torrc
\* ------------------------------------------------------------------------
\* TorInstance.data_dir and TorInstance.torrc under the base directory.
DataDir(name) == "/root/tor/" \o name
TorrcPath(name) == DataDir(name) \o "/torrc.conf"

\* A plugin line for every type, the unknown one too.
TransportPlugin_Any(bridge_type) ==
    << <<"ClientTransportPlugin", bridge_type, "exec", "/usr/bin/obfs4proxy">> >>

\* The ClientTransportPlugin line chosen by bridge_type, if any.
TransportPlugin(bridge_type) ==
    CASE bridge_type = "obfs4" ->
            << <<"ClientTransportPlugin", "obfs4", "exec", "/usr/bin/obfs4proxy">> >>
      [] bridge_type = "snowflake" ->
            << <<"ClientTransportPlugin", "snowflake", "exec", "/usr/bin/snowflake-client">> >>
      [] bridge_type = "meek-azure" ->
            << <<"ClientTransportPlugin", "meek_lite", "exec", "/usr/bin/meek-client">> >>
      [] bridge_type = "webtunnel" ->
            << <<"ClientTransportPlugin", "webtunnel", "exec", "/usr/bin/webtunnel-client">> >>
      [] OTHER -> <<>>

\* `if use_bridges and self.bridge_data`
BridgesActive(use, bd) == use /\ bd # None

\* The configuration text create_torrc writes, as the sequence of its lines,
\* each line the tuple of its words.  bd is self.bridge_data, period the value
\* random.randint(15, 45) returned.
TorrcText(inst, use, bd, period) ==
    << <<"SocksPort", ToString(inst.port)>>,
       <<"DataDirectory", DataDir(inst.name)>> >>
    \o (IF BridgesActive(use, bd)
        THEN << <<"UseBridges", "1">> >>
             \o TransportPlugin(bd[1].type) \o bd[1].lines
        ELSE <<>>)
    \o << <<"ExitNodes", "{" \o inst.country \o "}">>,
          <<"StrictNodes", "1">>,
          <<"NewCircuitPeriod", ToString(period)>>,
          <<"MaxCircuitDirtiness", "300">>,
          <<"CircuitBuildTimeout", IF use THEN "120" ELSE "60">>,
          <<"LearnCircuitBuildTimeout", "0">>,
          <<"NumEntryGuards", "3">>,
          <<"UseEntryGuards", "1">> >>

\* ------------------------------------------------------------------------
\* Selection and ranking
\* ------------------------------------------------------------------------
\* max(results, key=lambda x: x.get('speed', 0)): the first result of the
\* greatest speed.
RECURSIVE MaxFrom(_, _, _)
MaxFrom(results, i, best) ==
    IF i > Len(results) THEN best
    ELSE MaxFrom(results, i + 1,
                 IF results[i].speed > best.speed THEN results[i] ELSE best)

\* The latest result taken for the best.
MaxBySpeed_Latest(results) == results[Len(results)]

MaxBySpeed(results) == MaxFrom(results, 2, results[1])

\* The sort key without its ping.
KeyLe_SpeedOnly(a, b) == -a.speed <= -b.speed

\* The sort key (-x['speed'], x['ping']) of a before or equal to that of b.
KeyLe(a, b) ==
    \/ -a.speed < -b.speed
    \/ (-a.speed = -b.speed /\ a.ping <= b.ping)

\* list.sort is stable: e goes behind every element whose key is not greater.
RECURSIVE InsertSorted(_, _)
InsertSorted(sorted, e) ==
    IF sorted = <<>> THEN <<e>>
    ELSE IF KeyLe(Head(sorted), e)
         THEN <<Head(sorted)>> \o InsertSorted(Tail(sorted), e)
         ELSE <<e>> \o sorted

RECURSIVE SortBySpeed(_)
SortBySpeed(list) ==
    IF list = <<>> THEN <<>>
    ELSE InsertSorted(SortBySpeed(SubSeq(list, 1, Len(list) - 1)),
                      list[Len(list)])

\* ------------------------------------------------------------------------
\* The process table
\* ------------------------------------------------------------------------
\* pkill -f and pgrep -f take a regular expression and search the command
\* line for it: the pattern 'tor -f <torrc of pat>' against the command line
\* 'tor -f <torrc of name>', for the instance names the model uses (the '.'
\* of "a.c" matches any character).
PatternMatches(pat, name) == pat = name \/ (pat = "a.c" /\ name = "abc")

\* A pkill that spares the processes of the torrc it is given.
Killed_Others(ps, name) == {p \in ps : p.name # name}

\* A stop that signals nothing.
Killed_None(ps, name) == {}

\* stop_instance: the processes pkill signals, those the pattern matches.
Killed(ps, name) == {p \in ps : PatternMatches(name, p.name)}

\* ------------------------------------------------------------------------
\* State
\* ------------------------------------------------------------------------
VARIABLES
    instances,             \* self.instances, in insertion order
    bridge_data,           \* self.bridge_data
    attempts_per_country,  \* self.attempts_per_country
    procs,                 \* the tor processes alive: [name, attempt]
    files,                 \* the torrc file of each data directory
    cached,                \* the data directories holding cached-* or state
    pc,                    \* where the program is
    cur,                   \* start_all...: index of the instance in the loop
    attempt,               \* find_fastest...: the attempt, from 1
    results,               \* find_fastest...: results
    successful,            \* start_all...: successful
    ranking,               \* start_all...: successful once sorted
    use_bridges,           \* start_all...: use_bridges
    res,                   \* what get_ip_and_location returned in this attempt
    meas,                  \* what test_speed returned in this attempt
    arg,                   \* the call in progress of a function run on its own
    won,                   \* the names whose country some attempt of the run resolved
    test_schedule,         \* self.test_schedule, in polls of sixty seconds
    jobs,                  \* schedule: the jobs, [interval, next_run]
    due,                   \* schedule.run_pending: the jobs still to run
    now,                   \* the clock, in polls of sixty seconds
    running                \* the number of jobs that have not returned

\* The state of the schedule.
sched == <<test_schedule, jobs, due, now, running>>

vars == <<instances, bridge_data, attempts_per_country, procs, files, cached,
          pc, cur, attempt, results, successful, ranking, use_bridges, res,
          meas, arg, won, sched>>

\* self.test_schedule = None, and no job registered.
NoSchedule ==
    /\ test_schedule = None /\ jobs = <<>> /\ due = <<>> /\ now = 0
    /\ running = 0

Names == {"abc", "a.c"}

\* TorInstance.__init__
TorInstance(name, country, port) ==
    [name |-> name, country |-> Upper(country), port |-> port,
     ip |-> None, city |-> None, ping |-> None, speed |-> None,
     best_results |-> <<>>]

\* ------------------------------------------------------------------------
\* What the services may answer
\* ------------------------------------------------------------------------
\* requests.get raised (a timeout, a refused connection, a bad body).
Exc == [kind |-> "exc"]
IpAnswer(text, ms) == [kind |-> "ok", text |-> text, ms |-> ms]
GeoAnswer(status, country, city) ==
    [kind |-> "ok", status |-> status, country |-> country, city |-> city]
Download(status, size, ms) ==
    [kind |-> "ok", status |-> status, size |-> size, ms |-> ms]
Status(status, ms) == [kind |-> "ok", status |-> status, ms |-> ms]

IpA == <<"1", "2", "3", "4">>
IpB == <<"5", "6", "7", "8">>
IpOld == <<"9", "9", "9", "9">>
Junk == <<"blocked">>

\* The answers of the five ip services and of the four location services in
\* one call of get_ip_and_location, as the attempts of a run meet them.
RunResolveAnswers ==
    { << <<Exc, Exc, Exc, Exc, Exc>>,
         <<Exc, Exc, Exc, Exc>> >>,
      << <<Exc, IpAnswer(IpA, 50), Exc, Exc, Exc>>,
         <<GeoAnswer(200, "us", None), Exc, Exc, Exc>> >>,
      << <<IpAnswer(Junk, 20), IpAnswer(IpB, 80), Exc, Exc, Exc>>,
         <<Exc, GeoAnswer(200, "US", Some("Dallas")), Exc, Exc>> >>,
      << <<IpAnswer(<<"">>, 20), Exc, IpAnswer(IpA, 50), Exc, Exc>>,
         <<GeoAnswer(500, "", None), GeoAnswer(200, "FR", Some("Paris")),
           Exc, Exc>> >>,
      << <<IpAnswer(IpB, 80), Exc, Exc, Exc, Exc>>,
         <<GeoAnswer(200, "usa", None), Exc, Exc, Exc>> >> }

\* The answers of the three download urls and of the three status requests
\* in one call of test_speed.
RunSpeedAnswers ==
    { << <<Exc, Exc, Download(200, 100000, 500)>>, <<Exc, Exc, Exc>> >>,
      << <<Exc, Download(404, 0, 100), Exc>>, <<Exc, Exc, Exc>> >> }

\* The values of random.randint(15, 45) the attempts of a run meet.
RunPeriods == {15, 45}

\* ------------------------------------------------------------------------
\* find_fastest_ip_for_instance and start_all_instances_with_best_ips
\* ------------------------------------------------------------------------
Inst == instances[cur]

\* The country left unchecked.
RightCountry_AnyIp(r, inst) == Truthy(r.ip)

\* `if ip and country == inst.country`
RightCountry(r, inst) == Truthy(r.ip) /\ r.country = inst.country

\* start_all_instances_with_best_ips, up to the first attempt.
StartAll ==
    /\ pc = "menu"
    /\ IF instances = <<>>
       THEN UNCHANGED vars
       ELSE /\ use_bridges' = (bridge_data # None)
            /\ successful' = <<>>
            /\ ranking' = None
            /\ cur' = 1
            /\ attempt' = 1
            /\ results' = <<>>
            /\ won' = {}
            /\ pc' = "stop"
            /\ UNCHANGED <<instances, bridge_data, attempts_per_country,
                           procs, files, cached, res, meas, arg>>
    /\ UNCHANGED sched

\* self.stop_instance(inst): pkill, then the two seconds of sleep.
StopStep ==
    /\ pc = "stop"
    /\ procs' = procs \ Killed(procs, Inst.name)
    /\ res' = None
    /\ meas' = None
    /\ arg' = None
    /\ pc' = "torrc"
    /\ UNCHANGED <<instances, bridge_data, attempts_per_country, files,
                   cached, cur, attempt, results, successful, ranking,
                   use_bridges, won>>
    /\ UNCHANGED sched

\* self.create_torrc(inst, use_bridges): the file is written, or mkdir or
\* open raises, which nothing up to main() catches.
TorrcStep ==
    /\ pc = "torrc"
    /\ \E written \in BOOLEAN, period \in RunPeriods :
          IF written
          THEN /\ files' = [files EXCEPT ![Inst.name] =
                              Some(TorrcText(Inst, use_bridges, bridge_data,
                                             period))]
               /\ pc' = "clean"
          ELSE /\ files' = files
               /\ pc' = "aborted"
    /\ UNCHANGED <<instances, bridge_data, attempts_per_country, procs,
                   cached, cur, attempt, results, successful, ranking,
                   use_bridges, res, meas, arg, won>>
    /\ UNCHANGED sched

\* An rm that deletes nothing.
Cleaned_Nothing(c, name) == c

\* The data directories holding cached-* or state once rm -rf has run on
\* those of instance name.
Cleaned(c, name) == c \ {name}

\* rm -rf cached-* and state.
CleanStep ==
    /\ pc = "clean"
    /\ cached' = Cleaned(cached, Inst.name)
    /\ pc' = "popen"
    /\ UNCHANGED <<instances, bridge_data, attempts_per_country, procs,
                   files, cur, attempt, results, successful, ranking,
                   use_bridges, res, meas, arg, won>>
    /\ UNCHANGED sched

\* subprocess.Popen("tor -f ...").
PopenStep ==
    /\ pc = "popen"
    /\ procs' = procs \cup {[name |-> Inst.name, attempt |-> attempt]}
    /\ pc' = "wait"
    /\ UNCHANGED <<instances, bridge_data, attempts_per_country, files,
                   cached, cur, attempt, results, successful, ranking,
                   use_bridges, res, meas, arg, won>>
    /\ UNCHANGED sched

\* time.sleep(wait_time), while tor fills its data directory.
WaitStep ==
    /\ pc = "wait"
    /\ cached' = cached \cup {Inst.name}
    /\ pc' = "resolve"
    /\ UNCHANGED <<instances, bridge_data, attempts_per_country, procs,
                   files, cur, attempt, results, successful, ranking,
                   use_bridges, res, meas, arg, won>>
    /\ UNCHANGED sched

\* ip, country, city, ping = self.get_ip_and_location(inst.port).  arg keeps
\* what the services answered in this call.
ResolveStep ==
    /\ pc = "resolve"
    /\ \E a \in RunResolveAnswers :
          LET r == get_ip_and_location(a[1], a[2])
          IN  /\ res' = Some(r)
              /\ won' = IF r.country = Inst.country
                         THEN won \cup {Inst.name} ELSE won
              /\ arg' = Some([ip |-> a[1], geo |-> a[2]])
    /\ pc' = "check"
    /\ UNCHANGED <<instances, bridge_data, attempts_per_country, procs,
                   files, cached, cur, attempt, results, successful, ranking,
                   use_bridges, meas>>
    /\ UNCHANGED sched

\* The branch taken when the country is the instance's: test_speed and the
\* result appended.
SpeedStep ==
    /\ pc = "check"
    /\ RightCountry(res[1], Inst)
    /\ \E a \in RunSpeedAnswers :
          LET m == test_speed(a[1], a[2])
          IN  /\ meas' = Some(m)
              /\ results' = Append(results,
                                [ip |-> res[1].ip, country |-> res[1].country,
                                 city |-> res[1].city, ping |-> res[1].ping,
                                 speed |-> m.speed])
    /\ pc' = "settle"
    /\ UNCHANGED <<instances, bridge_data, attempts_per_country, procs,
                   files, cached, cur, attempt, successful, ranking,
                   use_bridges, res, arg, won>>
    /\ UNCHANGED sched

\* The else branch: "Wrong country".
WrongCountryStep ==
    /\ pc = "check"
    /\ ~RightCountry(res[1], Inst)
    /\ pc' = "settle"
    /\ UNCHANGED <<instances, bridge_data, attempts_per_country, procs,
                   files, cached, cur, attempt, results, successful, ranking,
                   use_bridges, res, meas, arg, won>>
    /\ UNCHANGED sched

\* time.sleep(2) and the loop's next attempt, if any.
SettleStep ==
    /\ pc = "settle"
    /\ IF attempt < attempts_per_country
       THEN attempt' = attempt + 1 /\ pc' = "stop"
       ELSE attempt' = attempt /\ pc' = "best"
    /\ UNCHANGED <<instances, bridge_data, attempts_per_country, procs,
                   files, cached, cur, results, successful, ranking,
                   use_bridges, res, meas, arg, won>>
    /\ UNCHANGED sched

\* The entry start_all... appends for a result.
Entry(name, r) ==
    [name |-> name, ip |-> r.ip, country |-> r.country, city |-> r.city,
     ping |-> r.ping, speed |-> r.speed]

\* The instance once find_fastest... has recorded best and results in it.
Recorded(inst, best, rs) ==
    [inst EXCEPT !.ip = Some(best.ip), !.city = Some(best.city),
                 !.ping = Some(best.ping), !.speed = Some(best.speed),
                 !.best_results = rs]

\* A best result of speed 0 taken for no result.
HasResult_Speed(rs) == rs # <<>> /\ MaxBySpeed(rs).speed > 0

\* `if results:` in find_fastest..., and `if result:` on the value returned.
HasResult(rs) == rs # <<>>

\* The end of find_fastest_ip_for_instance (the best result recorded and
\* returned, or None returned), what start_all... does with the value, and
\* the loop's next instance, if any.
BestStep ==
    /\ pc = "best"
    /\ IF HasResult(results)
       THEN LET best == MaxBySpeed(results)
            IN  /\ instances' = [instances EXCEPT
                                    ![cur] = Recorded(@, best, results)]
                /\ successful' = Append(successful, Entry(Inst.name, best))
       ELSE UNCHANGED <<instances, successful>>
    /\ IF cur < Len(instances)
       THEN cur' = cur + 1 /\ attempt' = 1 /\ results' = <<>> /\ pc' = "stop"
       ELSE UNCHANGED <<cur, attempt, results>> /\ pc' = "sort"
    /\ UNCHANGED <<bridge_data, attempts_per_country, procs, files, cached,
                   ranking, use_bridges, res, meas, arg, won>>
    /\ UNCHANGED sched

\* successful.sort(key=lambda x: (-x['speed'], x['ping'])), and the listing.
SortStep ==
    /\ pc = "sort"
    /\ ranking' = Some(SortBySpeed(successful))
    /\ pc' = "ranked"
    /\ UNCHANGED <<instances, bridge_data, attempts_per_country, procs,
                   files, cached, cur, attempt, results, successful,
                   use_bridges, res, meas, arg, won>>
    /\ UNCHANGED sched

\* ------------------------------------------------------------------------
\* One run of start_all_instances_with_best_ips
\* ------------------------------------------------------------------------
\* The registries a run may start from: what add_instance_interactive has
\* been given, in order.
Fleets ==
    { <<>>,
      << TorInstance("abc", "us", 9050) >>,
      << TorInstance("abc", "us", 9050), TorInstance("a.c", "fr", 9051) >>,
      << TorInstance("a.c", "US", 9050), TorInstance("abc", "us", 9051) >> }

\* What an earlier run has left in an instance.
OldResult ==
    [ip |-> IpOld, country |-> "US", city |-> "Unknown", ping |-> 70,
     speed |-> 50]

\* The bridge input configure_bridges has been given, if any.
RunBridgeData ==
    {None} \cup {Some(bd) : bd \in
                    parse_bridge_input(<< <<"obfs4", "192.95.36.142:443">> >>)}

NoFiles == [n \in Names |-> None]

Init ==
    /\ \E fleet \in Fleets, earlier \in BOOLEAN, recorded \in BOOLEAN :
          /\ recorded => earlier
          /\ instances = [k \in 1..Len(fleet) |->
                            IF recorded
                            THEN Recorded(fleet[k], OldResult, <<OldResult>>)
                            ELSE fleet[k]]
          /\ procs = IF earlier
                     THEN {[name |-> fleet[k].name, attempt |-> 0] :
                              k \in 1..Len(fleet)}
                     ELSE {}
          /\ cached = {p.name : p \in procs}
          /\ files = [n \in Names |->
                        IF \E k \in 1..Len(fleet) : earlier /\ fleet[k].name = n
                        THEN Some(<< <<"SocksPort", "9050">> >>)
                        ELSE None]
    /\ bridge_data \in RunBridgeData
    /\ attempts_per_country \in 1..MaxAttempts
    /\ pc = "menu"
    /\ cur = 0
    /\ attempt = 0
    /\ results = <<>>
    /\ successful = <<>>
    /\ ranking = None
    /\ use_bridges = FALSE
    /\ res = None
    /\ meas = None
    /\ arg = None
    /\ won = {}
    /\ NoSchedule

Next ==
    \/ StartAll
    \/ StopStep
    \/ TorrcStep
    \/ CleanStep
    \/ PopenStep
    \/ WaitStep
    \/ ResolveStep
    \/ SpeedStep
    \/ WrongCountryStep
    \/ SettleStep
    \/ BestStep
    \/ SortStep

Spec == Init /\ [][Next]_vars

\* ------------------------------------------------------------------------
\* Properties of a run
\* ------------------------------------------------------------------------
\* The entries of seq q that carry name n.
EntriesOf(q, n) == {j \in DOMAIN q : q[j].name = n}

\* C1: the best result recorded in an instance is one of the results
\* collected for it in the run, and none of them has a greater throughput;
\* the entry appended for the ranking carries that same best result.
C1_BestIsMax ==
    /\ \A k \in DOMAIN instances :
          LET i == instances[k]
          IN  i.best_results # <<>> =>
                /\ \E j \in DOMAIN i.best_results :
                      LET b == i.best_results[j]
                      IN  /\ i.ip = Some(b.ip)
                          /\ i.city = Some(b.city)
                          /\ i.ping = Some(b.ping)
                          /\ i.speed = Some(b.speed)
                /\ \A j \in DOMAIN i.best_results :
                      i.best_results[j].speed <= i.speed[1]
    /\ \A e \in DOMAIN successful :
          \A k \in DOMAIN instances :
             instances[k].name = successful[e].name =>
                /\ instances[k].speed = Some(successful[e].speed)
                /\ instances[k].ip = Some(successful[e].ip)
                /\ \A j \in DOMAIN instances[k].best_results :
                      instances[k].best_results[j].speed <= successful[e].speed

\* A run has recorded, for some instance, two results of which the first is
\* the faster and is the one recorded.
C1_Witness ==
    \E k \in DOMAIN instances :
       LET i == instances[k]
       IN  /\ Len(i.best_results) >= 2
           /\ i.best_results[1].speed > i.best_results[2].speed
           /\ i.speed = Some(i.best_results[1].speed)
           /\ EntriesOf(successful, i.name) # {}

\* C3: once the ranking is made, an instance has one entry in it if some
\* attempt of the run resolved its country, and none otherwise.
C3_RankedIffWon ==
    ranking # None =>
       \A k \in DOMAIN instances :
          Cardinality(EntriesOf(ranking[1], instances[k].name))
             = IF instances[k].name \in won THEN 1 ELSE 0

\* A ranking that holds an instance whose best throughput is zero and leaves
\* out an instance no attempt resolved.
C3_Witness ==
    /\ ranking # None
    /\ \E j \in DOMAIN ranking[1] : ranking[1][j].speed = 0
    /\ \E k \in DOMAIN instances :
          EntriesOf(ranking[1], instances[k].name) = {}

\* C4: test_speed is called in an attempt exactly when get_ip_and_location
\* returned an address with the instance's country; an attempt without such
\* an answer appends no result.
C4_SpeedIffRightCountry ==
    LET right == res # None /\ res[1].ip # None
                    /\ res[1].country = Inst.country
    IN  /\ pc \in {"resolve", "check", "settle", "best"} =>
              (meas # None => right)
        /\ pc \in {"settle", "best"} => (meas # None <=> right)
        /\ pc \in {"check", "settle"} =>
              Len(results) <= (IF right /\ pc = "settle" THEN attempt
                               ELSE attempt - 1)

\* An attempt on a US instance has resolved FR and ends without a speed test.
C4_Witness ==
    /\ pc = "settle"
    /\ res # None /\ res[1].country = "FR" /\ Inst.country = "US"
    /\ meas = None

\* C6: a configuration that cannot be written fails its attempt only; the
\* run goes on and is never aborted.
C6_RunNeverAborted == pc # "aborted"

\* ------------------------------------------------------------------------
\* The sort of start_all_instances_with_best_ips on its own
\* ------------------------------------------------------------------------
NoRun ==
    /\ cur = 0 /\ attempt = 0 /\ results = <<>> /\ successful = <<>>
    /\ ranking = None /\ use_bridges = FALSE /\ res = None /\ meas = None
    /\ won = {}

NoFleet ==
    /\ instances = <<>> /\ bridge_data = None /\ attempts_per_country = 3
    /\ procs = {} /\ files = NoFiles /\ cached = {}

\* The best results the instances of a fleet may have returned.
RankResults ==
    {[ip |-> IpA, country |-> "US", city |-> "Unknown", ping |-> p,
      speed |-> v] : p \in {50, 80}, v \in {0, 160, 910}}

RankName(k) == "tor" \o ToString(k)

\* The state before the sort: every instance of the fleet has returned a
\* best result.
InitRank ==
    /\ \E n \in 1..MaxRanked : \E bests \in [1..n -> RankResults] :
          /\ instances = [k \in 1..n |->
                            Recorded(TorInstance(RankName(k), "US", 9050 + k),
                                     bests[k], <<bests[k]>>)]
          /\ successful = [k \in 1..n |-> Entry(RankName(k), bests[k])]
          /\ procs = {[name |-> RankName(k), attempt |-> 1] : k \in 1..n}
          /\ cached = {RankName(k) : k \in 1..n}
          /\ won = {RankName(k) : k \in 1..n}
          /\ cur = n
          /\ results = <<bests[n]>>
    /\ files = NoFiles
    /\ bridge_data = None
    /\ attempts_per_country = 1
    /\ attempt = 1
    /\ pc = "sort"
    /\ ranking = None
    /\ use_bridges = FALSE
    /\ res = None
    /\ meas = None
    /\ arg = None
    /\ NoSchedule

SpecRank == InitRank /\ [][SortStep]_vars

\* C2: in the ranking every entry is followed by one of a smaller
\* throughput, or of the same throughput and no smaller latency; the ranking
\* holds the entries collected, each once.
C2_RankingSorted ==
    ranking # None =>
       LET r == ranking[1]
       IN  /\ \A j \in 1..(Len(r) - 1) :
                \/ r[j].speed > r[j + 1].speed
                \/ (r[j].speed = r[j + 1].speed /\ r[j].ping <= r[j + 1].ping)
           /\ Len(r) = Len(successful)
           /\ \A j \in DOMAIN successful : \E k \in DOMAIN r : r[k] = successful[j]

\* A ranking of three entries that the sort has reordered, two of them of
\* the same throughput and different latencies.
C2_Witness ==
    /\ ranking # None
    /\ Len(ranking[1]) >= 3
    /\ ranking[1] # successful
    /\ \E j \in 1..(Len(ranking[1]) - 1) :
          /\ ranking[1][j].speed = ranking[1][j + 1].speed
          /\ ranking[1][j].ping < ranking[1][j + 1].ping

\* ------------------------------------------------------------------------
\* test_speed on its own
\* ------------------------------------------------------------------------
\* What a download url may answer, and a status request.
DownloadAnswers ==
    {Exc, Download(404, 0, 100), Download(200, 1000, 500),
     Download(200, 100000, 500), Download(200, 25000, 250)}

StatusAnswers ==
    {Exc, Status(500, 100), Status(200, 100), Status(200, 120),
     Status(200, 40000)}

InitProbe ==
    /\ NoFleet
    /\ NoRun
    /\ pc = "test_speed"
    /\ \E dl \in [1..3 -> DownloadAnswers] : arg = Some([dl |-> dl, st |-> None])
    /\ NoSchedule

\* One call of test_speed, the download urls answering arg.dl.
ProbeCall ==
    /\ pc = "test_speed"
    /\ \E st \in [1..3 -> StatusAnswers] :
          /\ meas' = Some(test_speed(arg[1].dl, st))
          /\ arg' = Some([dl |-> arg[1].dl, st |-> st])
    /\ UNCHANGED <<instances, bridge_data, attempts_per_country, procs,
                   files, cached, pc, cur, attempt, results, successful,
                   ranking, use_bridges, res, won>>
    /\ UNCHANGED sched

SpecProbe == InitProbe /\ [][ProbeCall]_vars

\* C9: test_speed returns the throughput of the first download that answers
\* 200 with at least 1000 bytes, bytes * 8 / (seconds * 1000000) rounded to
\* two decimals, having requested no later url and no status check.
C9_FirstGoodDownload ==
    meas # None =>
       LET dl == arg[1].dl
           good == {i \in 1..3 : dl[i].kind = "ok" /\ dl[i].status = 200
                                    /\ dl[i].size >= 1000}
       IN  good # {} =>
              LET f == CHOOSE i \in good : \A j \in good : i <= j
              IN  /\ meas[1].path = "download"
                  /\ meas[1].speed
                        = RoundHalfEven(dl[f].size * 8 * 100, dl[f].ms * 1000)
                  /\ meas[1].dlCalls = f
                  /\ meas[1].stCalls = 0

\* The downloads all fail (an exception or a status other than 200) and the
\* three status requests all answer 200.
FallbackCase ==
    /\ meas # None
    /\ \A i \in 1..3 : arg[1].dl[i].kind = "exc" \/ arg[1].dl[i].status # 200
    /\ \A i \in 1..3 : arg[1].st[i].kind = "ok" /\ arg[1].st[i].status = 200

\* The average behind estimate a is no smaller than that behind b.
AvgGe(a, b) == a.avg[1] * b.avg[2] >= b.avg[1] * a.avg[2]

\* C10: when the downloads fail and the status requests succeed, test_speed
\* returns the estimate of the average of their three latencies, which is at
\* least 0.1 Mbps; no estimate is below 0.1 Mbps, and of two calls in a row
\* that return estimates, the one of the larger average does not return the
\* larger estimate.
C10_FallbackEstimate ==
    /\ [](FallbackCase =>
            /\ meas[1].path = "fallback"
            /\ meas[1].avg = <<arg[1].st[1].ms + arg[1].st[2].ms
                                 + arg[1].st[3].ms, 3>>
            /\ meas[1].speed >= 10)
    /\ []((meas # None /\ meas[1].path = "fallback") => meas[1].speed >= 10)
    /\ [][(/\ meas # None /\ meas[1].path = "fallback"
           /\ meas'[1].path = "fallback"
           /\ AvgGe(meas'[1], meas[1]))
          => meas'[1].speed <= meas[1].speed]_vars

\* The downloads fail and the three status requests take 40 seconds each:
\* the estimate is the floor.
C10_Witness ==
    /\ FallbackCase
    /\ meas[1].avg = <<120000, 3>>
    /\ meas[1].speed = 10

\* ------------------------------------------------------------------------
\* get_ip_and_location on its own, request by request
\* ------------------------------------------------------------------------
\* What an ip service may answer: nothing, an empty body, a page of text, an
\* address, a host name of four labels.
IpAnswers ==
    {Exc, IpAnswer(<<"">>, 10), IpAnswer(Junk, 20), IpAnswer(IpA, 50),
     IpAnswer(IpB, 80), IpAnswer(<<"www", "example", "co", "uk">>, 30)}

\* What a location service may answer.
GeoAnswers ==
    {Exc, GeoAnswer(500, "US", None), GeoAnswer(200, "us", None),
     GeoAnswer(200, "FR", Some("Paris")), GeoAnswer(200, "usa", None),
     GeoAnswer(200, "", Some("Paris"))}

\* The number of ip_services and of location_services.
NumIpServices == 5
NumGeoServices == 4

\* A dotted quad: four parts, each a number.
IsDottedQuad(text) ==
    /\ Len(text) = 4
    /\ \A k \in 1..4 : text[k] \in {"1", "2", "3", "4", "5", "6", "7", "8", "9"}

\* arg holds the loop states s and g, quad: an ip service has answered a
\* dotted quad in this call, and the answers received so far, by loop.
InitResolve ==
    /\ NoFleet
    /\ NoRun
    /\ pc = "ip_services"
    /\ arg = Some([s |-> IpStart, g |-> GeoStart, quad |-> FALSE,
                   ipLog |-> <<>>, geoLog |-> <<>>])
    /\ NoSchedule

\* One request of the loop over ip_services.
IpRequest ==
    /\ pc = "ip_services"
    /\ ~arg[1].s.done
    /\ arg[1].s.calls < NumIpServices
    /\ \E r \in IpAnswers :
          arg' = Some([arg[1] EXCEPT
                          !.s = IpStep(@, r),
                          !.quad = @ \/ (r.kind = "ok" /\ IsDottedQuad(r.text)),
                          !.ipLog = Append(@, r)])
    /\ UNCHANGED <<instances, bridge_data, attempts_per_country, procs,
                   files, cached, pc, cur, attempt, results, successful,
                   ranking, use_bridges, res, meas, won>>
    /\ UNCHANGED sched

\* The loop over ip_services is left: `if not ip: return ...`.
IpLoopEnd ==
    /\ pc = "ip_services"
    /\ arg[1].s.done \/ arg[1].s.calls = NumIpServices
    /\ IF ~Truthy(arg[1].s.ip)
       THEN res' = Some(NoIp(arg[1].s.calls)) /\ pc' = "returned"
       ELSE res' = res /\ pc' = "location_services"
    /\ UNCHANGED <<instances, bridge_data, attempts_per_country, procs,
                   files, cached, cur, attempt, results, successful, ranking,
                   use_bridges, meas, arg, won>>
    /\ UNCHANGED sched

\* One request of the loop over location_services.
GeoRequest ==
    /\ pc = "location_services"
    /\ ~arg[1].g.found
    /\ arg[1].g.calls < NumGeoServices
    /\ \E r \in GeoAnswers :
          arg' = Some([arg[1] EXCEPT !.g = GeoStep(@, r),
                                     !.geoLog = Append(@, r)])
    /\ UNCHANGED <<instances, bridge_data, attempts_per_country, procs,
                   files, cached, pc, cur, attempt, results, successful,
                   ranking, use_bridges, res, meas, won>>
    /\ UNCHANGED sched

\* The return from within the loop over location_services, or behind it.
GeoLoopEnd ==
    /\ pc = "location_services"
    /\ arg[1].g.found \/ arg[1].g.calls = NumGeoServices
    /\ res' = Some(Located(arg[1].s, arg[1].g))
    /\ pc' = "returned"
    /\ UNCHANGED <<instances, bridge_data, attempts_per_country, procs,
                   files, cached, cur, attempt, results, successful, ranking,
                   use_bridges, meas, arg, won>>
    /\ UNCHANGED sched

NextResolve == IpRequest \/ IpLoopEnd \/ GeoRequest \/ GeoLoopEnd

SpecResolve == InitResolve /\ [][NextResolve]_vars

\* C5: as long as no ip service has answered a dotted quad, no location
\* service is requested, and the call returns the "No IP" result.
C5_NoAddressNoLocation ==
    (pc # "ip_services" /\ ~arg[1].quad) =>
       /\ pc = "returned"
       /\ arg[1].g.calls = 0
       /\ res = Some(NoIp(arg[1].s.calls))

\* ------------------------------------------------------------------------
\* create_torrc on its own
\* ------------------------------------------------------------------------
\* The lines configure_bridges may be given.
BridgeInputLines ==
    { <<"obfs4", "192.95.36.142:443">>,
      <<"Bridge", "snowflake", "192.0.2.3:80">>,
      <<"meek_lite", "192.0.2.2:2">>,
      <<"webtunnel", "192.0.2.4:443">>,
      <<"ExitNodes", "{FR}">>,
      <<"BridgeRelay", "1">> }

BridgeInputs == UNION {[1..n -> BridgeInputLines] : n \in 1..MaxBridgeLines}

\* self.bridge_data: None, or what parse_bridge_input returned.
BridgeData ==
    {None} \cup UNION {{Some(bd) : bd \in parse_bridge_input(in)} :
                          in \in BridgeInputs}

InitTorrc ==
    /\ \E n \in Names, c \in {"us", "FR"} :
          instances = << TorInstance(n, c, 9050) >>
    /\ bridge_data \in BridgeData
    /\ use_bridges \in BOOLEAN
    /\ attempts_per_country = 3
    /\ procs = {}
    /\ files = NoFiles
    /\ cached = {}
    /\ pc = "create_torrc"
    /\ cur = 1
    /\ attempt = 0 /\ results = <<>> /\ successful = <<>> /\ ranking = None
    /\ res = None /\ meas = None /\ arg = None /\ won = {}
    /\ NoSchedule

\* A wider range of periods.
CircuitPeriods_Wide == 14..46

\* The values random.randint(15, 45) may return.
CircuitPeriods == 15..45

\* One call of create_torrc(inst, use_bridges).  arg tells whether the call
\* is the first on the file or a later one.
TorrcCall ==
    /\ pc = "create_torrc"
    /\ \E period \in CircuitPeriods :
          files' = [files EXCEPT ![Inst.name] =
                      Some(TorrcText(Inst, use_bridges, bridge_data, period))]
    /\ arg' = IF arg = None THEN Some("first") ELSE Some("later")
    /\ UNCHANGED <<instances, bridge_data, attempts_per_country, procs,
                   cached, pc, cur, attempt, results, successful, ranking,
                   use_bridges, res, meas, won>>
    /\ UNCHANGED sched

SpecTorrc == InitTorrc /\ [][TorrcCall]_vars

\* The lines of text t whose first word is directive d.
LinesOf(t, d) == {j \in DOMAIN t : t[j][1] = d}

KnownBridgeTypes == {"obfs4", "snowflake", "meek-azure", "webtunnel"}

\* C8: the file create_torrc has written has one ExitNodes line, which names
\* the instance's country, and has a ClientTransportPlugin line exactly when
\* bridges are asked for, bridge data is stored and its type is one of the
\* four known ones.
C8_ExitCountryAndPlugin ==
    \A n \in Names :
       files[n] # None =>
          LET t == files[n][1]
          IN  /\ Cardinality(LinesOf(t, "ExitNodes")) = 1
              /\ \A j \in LinesOf(t, "ExitNodes") :
                    t[j] = <<"ExitNodes", "{" \o Inst.country \o "}">>
              /\ (LinesOf(t, "ClientTransportPlugin") # {}
                    <=> (/\ use_bridges
                         /\ bridge_data # None
                         /\ bridge_data[1].type \in KnownBridgeTypes))

\* A file written with bridge data of the unknown type, one of whose bridge
\* lines was entered as an ExitNodes line: no plugin line, one ExitNodes.
C8_Witness ==
    /\ use_bridges
    /\ bridge_data # None
    /\ bridge_data[1].type = "unknown"
    /\ \E n \in Names :
          /\ files[n] # None
          /\ \E j \in DOMAIN files[n][1] :
                files[n][1][j] = <<"Bridge", "ExitNodes", "{FR}">>
          /\ LinesOf(files[n][1], "ClientTransportPlugin") = {}

\* ------------------------------------------------------------------------
\* add_instance_interactive and remove_instance
\* ------------------------------------------------------------------------
NameSet(insts) == {insts[k].name : k \in DOMAIN insts}

\* del self.instances[choice]
Without(insts, name) == SelectSeq(insts, LAMBDA i : i.name # name)

CountryInputs == {"us", "FR", "usa", "u1"}
Ports == {9050, 9051}

\* One pass of the loop of add_instance_interactive, to the instance added
\* or to the `continue` (the port is asked for until a free one is given).
AddInstance ==
    /\ pc = "menu"
    /\ \E name \in Names, country \in CountryInputs, port \in Ports :
          IF \/ name \in NameSet(instances)
             \/ Len(Upper(country)) # 2
             \/ \E k \in DOMAIN instances : instances[k].port = port
          THEN instances' = instances
          ELSE instances' = Append(instances, TorInstance(name, country, port))
    /\ UNCHANGED <<bridge_data, attempts_per_country, procs, files, cached,
                   pc, cur, attempt, results, successful, ranking,
                   use_bridges, res, meas, arg, won>>
    /\ UNCHANGED sched

\* remove_instance up to the question about the data directory: the name is
\* read and, if it is registered, its instance stopped.  arg keeps the name
\* read and whether the process of the instance was alive.
RemoveAsk ==
    /\ pc = "menu"
    /\ instances # <<>>
    /\ \E choice \in Names \cup {"tor9"} :
          /\ arg' = Some([choice |-> choice,
                          running |-> \E p \in procs : p.name = choice])
          /\ IF choice \in NameSet(instances)
             THEN /\ procs' = procs \ Killed(procs, choice)
                  /\ pc' = "remove"
             ELSE UNCHANGED <<procs, pc>>
    /\ UNCHANGED <<instances, bridge_data, attempts_per_country, files,
                   cached, cur, attempt, results, successful, ranking,
                   use_bridges, res, meas, won>>
    /\ UNCHANGED sched

\* remove_instance from the answer on: the data directory deleted if asked,
\* and the instance deleted.
RemoveDelete ==
    /\ pc = "remove"
    /\ \E delete_data \in BOOLEAN :
          IF delete_data
          THEN /\ files' = [files EXCEPT ![arg[1].choice] = None]
               /\ cached' = cached \ {arg[1].choice}
          ELSE UNCHANGED <<files, cached>>
    /\ instances' = Without(instances, arg[1].choice)
    /\ pc' = "menu"
    /\ UNCHANGED <<bridge_data, attempts_per_country, procs, cur, attempt,
                   results, successful, ranking, use_bridges, res, meas, arg,
                   won>>
    /\ UNCHANGED sched

\* The program starts with no instance; tor processes of an earlier session
\* may be alive, with their files.
InitRegistry ==
    /\ instances = <<>>
    /\ bridge_data = None
    /\ attempts_per_country = 3
    /\ \E alive \in SUBSET Names :
          /\ procs = {[name |-> n, attempt |-> 0] : n \in alive}
          /\ cached = alive
          /\ files = [n \in Names |->
                        IF n \in alive THEN Some(<< <<"SocksPort", "9050">> >>)
                        ELSE None]
    /\ pc = "menu"
    /\ NoRun
    /\ arg = None
    /\ NoSchedule

NextRegistry == AddInstance \/ RemoveAsk \/ RemoveDelete

SpecRegistry == InitRegistry /\ [][NextRegistry]_vars

\* The tor process started with the torrc of instance name is alive.
Alive(ps, name) == \E p \in ps : p.name = name

\* C7: an instance leaves the registry only at the end of a removal that
\* has stopped it first: from the stop to the deletion it is registered and
\* no process of its torrc is alive.  The removal of a registered name goes
\* on to the deletion whether or not its process was running, and a stop
\* whose pkill finds no process changes no process.  A removal asked for a
\* name that is not registered changes neither the registry nor the
\* processes nor the files.
C7_StopBeforeDelete ==
    /\ [](pc = "remove" =>
            /\ arg[1].choice \in NameSet(instances)
            /\ ~Alive(procs, arg[1].choice))
    /\ [][~(NameSet(instances) \subseteq NameSet(instances'))
          => /\ pc = "remove"
             /\ NameSet(instances') = NameSet(instances) \ {arg[1].choice}
             /\ ~Alive(procs', arg[1].choice)]_vars
    /\ [][(pc = "menu" /\ instances' = instances /\ vars' # vars)
          => IF arg'[1].choice \in NameSet(instances)
             THEN /\ pc' = "remove"
                  /\ arg'[1].running = Alive(procs, arg'[1].choice)
                  /\ ~Alive(procs', arg'[1].choice)
                  /\ procs' \subseteq procs
                  /\ (\A p \in procs :
                         ~PatternMatches(arg'[1].choice, p.name))
                       => procs' = procs
             ELSE UNCHANGED <<instances, procs, files, cached, pc>>]_vars

\* A removal has stopped a running instance and is about to delete it.
C7_Witness ==
    /\ pc = "remove"
    /\ arg[1].running
    /\ arg[1].choice \in NameSet(instances)
    /\ \A p \in procs : p.name # arg[1].choice

\* ------------------------------------------------------------------------
\* test_all_instances
\* ------------------------------------------------------------------------
\* check_instance_running(inst): pgrep -f finds a process.  shell tells
\* whether the sh that runs the pgrep command is itself alive and matched
\* (its command line holds the pattern), which depends on the sh installed.
check_instance_running(ps, inst, shell) ==
    shell \/ \E p \in ps : PatternMatches(inst.name, p.name)

\* The answers of the services through the socks port of an instance whose
\* tor process is not alive: every request raises.
DeadPort == << <<Exc, Exc, Exc, Exc, Exc>>, <<Exc, Exc, Exc, Exc>> >>

\* Fields unchanged by the re-test.
Retested_Keep(inst, r, speed) == inst

\* inst.ip = ip; inst.city = city; inst.ping = ping; inst.speed = speed
Retested(inst, r, speed) ==
    [inst EXCEPT !.ip = Some(r.ip), !.city = Some(r.city),
                 !.ping = Some(r.ping), !.speed = Some(speed)]

\* The entry of test_all_instances: results = [] and the loop's first
\* instance.  arg keeps the registry as the re-test found it and counts the
\* calls of get_ip_and_location and of test_speed by instance.
RetestEnter ==
    /\ arg' = Some([before |-> instances,
                    resolves |-> [n \in Names |-> 0],
                    measures |-> [n \in Names |-> 0]])
    /\ res' = None
    /\ meas' = None
    /\ results' = <<>>
    /\ IF instances = <<>>
       THEN pc' = "retested" /\ cur' = 0
       ELSE pc' = "check_running" /\ cur' = 1
    /\ UNCHANGED <<instances, bridge_data, attempts_per_country, procs,
                   files, cached, attempt, successful, ranking,
                   use_bridges, won>>

\* test_all_instances called from the menu.
RetestStart ==
    /\ pc = "menu"
    /\ RetestEnter
    /\ UNCHANGED sched

\* if self.check_instance_running(inst)
RetestCheck ==
    /\ pc = "check_running"
    /\ \E shell \in BOOLEAN :
          pc' = IF check_instance_running(procs, Inst, shell)
                THEN "retest_resolve" ELSE "retest_next"
    /\ res' = None
    /\ meas' = None
    /\ UNCHANGED <<instances, bridge_data, attempts_per_country, procs,
                   files, cached, cur, attempt, results, successful, ranking,
                   use_bridges, arg, won>>
    /\ UNCHANGED sched

\* ip, country, city, ping = self.get_ip_and_location(inst.port); if ip
RetestResolve ==
    /\ pc = "retest_resolve"
    /\ \E a \in RunResolveAnswers :
          LET b == IF Alive(procs, Inst.name) THEN a ELSE DeadPort
              r == get_ip_and_location(b[1], b[2])
          IN  /\ res' = Some(r)
              /\ pc' = IF Truthy(r.ip) THEN "retest_speed" ELSE "retest_next"
    /\ arg' = Some([arg[1] EXCEPT !.resolves[Inst.name] = @ + 1])
    /\ UNCHANGED <<instances, bridge_data, attempts_per_country, procs,
                   files, cached, cur, attempt, results, successful, ranking,
                   use_bridges, meas, won>>
    /\ UNCHANGED sched

\* speed = self.test_speed(inst.port), the four fields assigned, and the
\* instance appended to results.
RetestSpeed ==
    /\ pc = "retest_speed"
    /\ \E a \in RunSpeedAnswers :
          LET m == test_speed(a[1], a[2])
          IN  /\ meas' = Some(m)
              /\ instances' = [instances EXCEPT
                                 ![cur] = Retested(@, res[1], m.speed)]
    /\ results' = Append(results, Inst.name)
    /\ arg' = Some([arg[1] EXCEPT !.measures[Inst.name] = @ + 1])
    /\ pc' = "retest_next"
    /\ UNCHANGED <<bridge_data, attempts_per_country, procs, files, cached,
                   cur, attempt, successful, ranking, use_bridges, res, won>>
    /\ UNCHANGED sched

\* The next instance of the loop, or the end of the loop.
RetestNext ==
    /\ pc = "retest_next"
    /\ IF cur < Len(instances)
       THEN cur' = cur + 1 /\ pc' = "check_running"
       ELSE cur' = cur /\ pc' = "retested"
    /\ UNCHANGED <<instances, bridge_data, attempts_per_country, procs,
                   files, cached, attempt, results, successful, ranking,
                   use_bridges, res, meas, arg, won>>
    /\ UNCHANGED sched

\* The registry with or without the results of an earlier run, and any of
\* its instances running.
InitRetest ==
    /\ \E fleet \in Fleets, recorded \in BOOLEAN :
          /\ instances = [k \in 1..Len(fleet) |->
                            IF recorded
                            THEN Recorded(fleet[k], OldResult, <<OldResult>>)
                            ELSE fleet[k]]
          /\ \E alive \in SUBSET NameSet(fleet) :
                /\ procs = {[name |-> n, attempt |-> 0] : n \in alive}
                /\ cached = alive
                /\ files = [n \in Names |->
                              IF n \in alive
                              THEN Some(<< <<"SocksPort", "9050">> >>)
                              ELSE None]
    /\ bridge_data \in RunBridgeData
    /\ attempts_per_country = 3
    /\ pc = "menu"
    /\ NoRun
    /\ arg = None
    /\ NoSchedule

NextRetest ==
    RetestStart \/ RetestCheck \/ RetestResolve \/ RetestSpeed \/ RetestNext

SpecRetest == InitRetest /\ [][NextRetest]_vars

\* The four fields a probe writes.
ResultFields(inst) == <<inst.ip, inst.city, inst.ping, inst.speed>>

\* C11: a re-test calls get_ip_and_location once and test_speed at most once
\* for every instance whose process is alive, changes no process, no torrc
\* and no cache, writes what the two calls returned into the instance when
\* an address came back, and leaves the fields of the instances whose
\* process is not alive as they were.
C11_RetestInPlace ==
    /\ [][UNCHANGED <<procs, files, cached>>]_vars
    /\ [](pc = "retested" =>
            \A k \in DOMAIN instances :
               LET n == instances[k].name
               IN  /\ Alive(procs, n) =>
                        /\ arg[1].resolves[n] = 1
                        /\ arg[1].measures[n] <= 1
                   /\ ~Alive(procs, n) =>
                        /\ instances[k] = arg[1].before[k]
                        /\ arg[1].measures[n] = 0)
    /\ []((pc = "retest_next" /\ res # None /\ Alive(procs, Inst.name)) =>
            IF Truthy(res[1].ip)
            THEN /\ meas # None
                 /\ ResultFields(Inst)
                      = <<Some(res[1].ip), Some(res[1].city),
                          Some(res[1].ping), Some(meas[1].speed)>>
                 /\ [Inst EXCEPT !.ip = None, !.city = None, !.ping = None,
                                 !.speed = None]
                      = [arg[1].before[cur] EXCEPT !.ip = None, !.city = None,
                                 !.ping = None, !.speed = None]
            ELSE Inst = arg[1].before[cur])

\* A re-test has ended with one instance re-measured to new values and
\* another, not running, left with the results of the earlier run.
C11_Witness ==
    /\ pc = "retested"
    /\ \E k \in DOMAIN instances :
          /\ Alive(procs, instances[k].name)
          /\ arg[1].measures[instances[k].name] = 1
          /\ instances[k] # arg[1].before[k]
    /\ \E k \in DOMAIN instances :
          /\ ~Alive(procs, instances[k].name)
          /\ arg[1].resolves[instances[k].name] = 1
          /\ instances[k].speed # None

\* ------------------------------------------------------------------------
\* The attempts of find_fastest_ip_for_instance, one after the other
\* ------------------------------------------------------------------------
\* The processes started with the torrc of instance name.
ProcsOf(ps, name) == {p \in ps : p.name = name}

\* C12: the attempts on an instance do not overlap.  The stop of attempt
\* k + 1 comes only after the last sleep of attempt k, whose process has
\* been started and whose probe has returned; a process is started only
\* when the stop (with its sleep) of the same attempt has left no process
\* of that torrc alive; and no torrc ever has two processes alive.
C12_AttemptsInTurn ==
    /\ [](\A n \in Names : Cardinality(ProcsOf(procs, n)) <= 1)
    /\ [](pc \in {"torrc", "clean", "popen"} => ~Alive(procs, Inst.name))
    /\ []((pc = "stop" /\ attempt > 1) =>
            /\ ProcsOf(procs, Inst.name)
                 = {[name |-> Inst.name, attempt |-> attempt - 1]}
            /\ res # None)
    /\ [][(pc' = "stop" /\ cur' = cur /\ attempt' # attempt)
          => (pc = "settle" /\ attempt' = attempt + 1)]_vars
    /\ [][~(procs' \subseteq procs)
          => /\ pc = "popen"
             /\ ~Alive(procs, Inst.name)
             /\ procs' = procs \cup {[name |-> Inst.name,
                                      attempt |-> attempt]}]_vars

\* The second attempt on an instance has started its process, the only one
\* of that torrc, after a first attempt that ran to its result.
C12_Witness ==
    /\ pc = "wait"
    /\ attempt = 2
    /\ ProcsOf(procs, Inst.name) = {[name |-> Inst.name, attempt |-> 2]}
    /\ Len(results) = 1

\* ------------------------------------------------------------------------
\* setup_schedule and run_scheduled_tests
\* ------------------------------------------------------------------------
\* The intervals setup_schedule may be given, in polls of sixty seconds;
\* 0 disables the schedule.
Intervals == {0, 1, 2}

\* setup_schedule
SetupSchedule ==
    /\ pc = "menu"
    /\ \E hours \in Intervals :
          test_schedule' = IF hours > 0 THEN Some(hours) ELSE None
    /\ UNCHANGED <<instances, bridge_data, attempts_per_country, procs,
                   files, cached, pc, cur, attempt, results, successful,
                   ranking, use_bridges, res, meas, arg, won, jobs, due, now,
                   running>>

\* run_scheduled_tests up to its loop: schedule.every(...).hours.do(job)
\* adds a job to the jobs of the schedule module, first due one interval
\* from now.
RunScheduledTests ==
    /\ pc = "menu"
    /\ test_schedule # None
    /\ Len(jobs) < MaxJobs
    /\ jobs' = Append(jobs, [interval |-> test_schedule[1],
                             next_run |-> now + test_schedule[1]])
    /\ pc' = "run_pending"
    /\ UNCHANGED <<instances, bridge_data, attempts_per_country, procs,
                   files, cached, cur, attempt, results, successful, ranking,
                   use_bridges, res, meas, arg, won, test_schedule, due, now,
                   running>>

\* The jobs that should run: datetime.now() >= job.next_run.
Runnable(js, t) == {j \in DOMAIN js : t >= js[j].next_run}

RECURSIVE SortedJobs(_, _)
\* sorted(runnable_jobs): by next_run, in the order of the list for equals.
SortedJobs(js, set) ==
    IF set = {} THEN <<>>
    ELSE LET j == CHOOSE j \in set :
                     \A k \in set : \/ js[j].next_run < js[k].next_run
                                    \/ /\ js[j].next_run = js[k].next_run
                                       /\ j <= k
         IN  <<j>> \o SortedJobs(js, set \ {j})

\* The position of the loop after the jobs of one run_pending.
AfterJobs(rest) == IF rest = <<>> THEN "sleep" ELSE "run_job"

\* A job started without waiting for its return.
Launched_Detached(rest) == AfterJobs(rest)

\* job.run() calls job_func in the thread of run_pending: the position is
\* the body of the job, whatever else is due.
Launched(rest) == "job"

\* schedule.run_pending(): the runnable jobs, sorted.
RunPending ==
    /\ pc = "run_pending"
    /\ due' = SortedJobs(jobs, Runnable(jobs, now))
    /\ pc' = AfterJobs(due')
    /\ UNCHANGED <<instances, bridge_data, attempts_per_country, procs,
                   files, cached, cur, attempt, results, successful, ranking,
                   use_bridges, res, meas, arg, won, test_schedule, jobs, now,
                   running>>

\* The next runnable job is run.
JobStart ==
    /\ pc = "run_job"
    /\ running' = running + 1
    /\ pc' = Launched(Tail(due))
    /\ due' = IF pc' = "job" THEN due ELSE Tail(due)
    /\ UNCHANGED <<instances, bridge_data, attempts_per_country, procs,
                   files, cached, cur, attempt, results, successful, ranking,
                   use_bridges, res, meas, arg, won, test_schedule, jobs,
                   now>>

\* job(): self.test_all_instances()
JobBody ==
    /\ pc = "job"
    /\ RetestEnter
    /\ UNCHANGED sched

\* Time passes while the job runs.
Elapse ==
    /\ pc \in {"check_running", "retest_resolve", "retest_speed"}
    /\ running > 0
    /\ now < MaxClock
    /\ now' = now + 1
    /\ UNCHANGED <<instances, bridge_data, attempts_per_country, procs,
                   files, cached, pc, cur, attempt, results, successful,
                   ranking, use_bridges, res, meas, arg, won, test_schedule,
                   jobs, due, running>>

\* The job returns: job.last_run, and job.next_run one interval from now.
JobEnd ==
    /\ pc = "retested"
    /\ running > 0
    /\ running' = running - 1
    /\ jobs' = [jobs EXCEPT ![Head(due)].next_run = now + jobs[Head(due)].interval]
    /\ due' = Tail(due)
    /\ pc' = AfterJobs(due')
    /\ UNCHANGED <<instances, bridge_data, attempts_per_country, procs,
                   files, cached, cur, attempt, results, successful, ranking,
                   use_bridges, res, meas, arg, won, test_schedule, now>>

\* time.sleep(60)
Sleep ==
    /\ pc = "sleep"
    /\ now < MaxClock
    /\ now' = now + 1
    /\ pc' = "run_pending"
    /\ UNCHANGED <<instances, bridge_data, attempts_per_country, procs,
                   files, cached, cur, attempt, results, successful, ranking,
                   use_bridges, res, meas, arg, won, test_schedule, jobs, due,
                   running>>

\* except KeyboardInterrupt: break.  The interrupt ends the sleep, or the
\* job that is running and the run_pending that called it.
Interrupt ==
    /\ pc \in {"sleep", "job", "check_running", "retest_resolve",
               "retest_speed", "retest_next", "retested"}
    /\ pc' = "menu"
    /\ running' = 0
    /\ due' = <<>>
    /\ UNCHANGED <<instances, bridge_data, attempts_per_country, procs,
                   files, cached, cur, attempt, results, successful, ranking,
                   use_bridges, res, meas, arg, won, test_schedule, jobs,
                   now>>

\* One instance, running, and no schedule yet.
InitSchedule ==
    /\ instances = << TorInstance("abc", "us", 9050) >>
    /\ procs = {[name |-> "abc", attempt |-> 0]}
    /\ cached = {"abc"}
    /\ files = [n \in Names |->
                  IF n = "abc" THEN Some(<< <<"SocksPort", "9050">> >>)
                  ELSE None]
    /\ bridge_data = None
    /\ attempts_per_country = 3
    /\ pc = "menu"
    /\ NoRun
    /\ arg = None
    /\ NoSchedule

NextSchedule ==
    \/ SetupSchedule
    \/ RunScheduledTests
    \/ RunPending
    \/ JobStart
    \/ JobBody
    \/ RetestCheck
    \/ RetestResolve
    \/ RetestSpeed
    \/ RetestNext
    \/ Elapse
    \/ JobEnd
    \/ Sleep
    \/ Interrupt

SpecSchedule == InitSchedule /\ [][NextSchedule]_vars

\* C13: at most one scheduled job is running at any time, and a job is
\* started only when none is running, however long the job before it took
\* and however many jobs are due.
C13_OneJobAtATime ==
    /\ [](running <= 1)
    /\ [](pc \in {"run_pending", "run_job", "sleep"} => running = 0)
    /\ [][running' > running => (running = 0 /\ pc = "run_job")]_vars

\* A job is still running two intervals after it was due, with a second
\* job due as well, and is the only one running.
C13_Witness ==
    /\ running = 1
    /\ pc = "retest_resolve"
    /\ Len(due) = 2
    /\ now >= jobs[Head(due)].next_run + 2 * jobs[Head(due)].interval

\* ------------------------------------------------------------------------
\* What a run leaves in the instances
\* ------------------------------------------------------------------------
\* find_fastest_ip_for_instance has returned for instance k in this run.
Returned(k) == k < cur \/ (k = cur /\ pc \in {"sort", "ranked"})

\* C14: once find_fastest_ip_for_instance has returned for an instance, its
\* best_results holds the results of this run's attempts and nothing of an
\* earlier run: it is the list the attempts filled, and it is empty when no
\* attempt succeeded.
C14_HistoryReplaced ==
    \A k \in DOMAIN instances :
       Returned(k) =>
          /\ OldResult \notin Range(instances[k].best_results)
          /\ instances[k].name \notin won =>
                instances[k].best_results = <<>>
          /\ (k = cur /\ pc \in {"sort", "ranked"}) =>
                instances[k].best_results = results

\* ------------------------------------------------------------------------
\* The steps of an attempt
\* ------------------------------------------------------------------------
\* The positions of a run, each with the one that follows it.
StepOrder ==
    { <<"menu", "stop">>, <<"stop", "torrc">>, <<"torrc", "clean">>,
      <<"torrc", "aborted">>, <<"clean", "popen">>, <<"popen", "wait">>,
      <<"wait", "resolve">>, <<"resolve", "check">>, <<"check", "settle">>,
      <<"settle", "stop">>, <<"settle", "best">>, <<"best", "stop">>,
      <<"best", "sort">>, <<"sort", "ranked">> }

\* The torrc of the instance of the loop is the one this run writes.
Configured ==
    /\ files[Inst.name] # None
    /\ \E period \in RunPeriods :
          files[Inst.name][1]
             = TorrcText(Inst, use_bridges, bridge_data, period)

\* The process of the instance of the loop is the one this attempt started.
Started == ProcsOf(procs, Inst.name) = {[name |-> Inst.name,
                                         attempt |-> attempt]}

\* C15: an attempt takes its steps in the order stop, torrc, cache, start,
\* wait, resolve, then the wrong-country branch or the speed test, then the
\* last sleep.  The torrc is written with no process of it alive; the
\* process is started with the torrc written and the cache deleted; the
\* resolution starts with the process started and the wait over; the
\* branch is taken on the resolution's result; and no position is reached
\* from another than the one before it.
C15_StepsInOrder ==
    /\ [](pc \in {"torrc", "clean", "popen"} =>
            /\ ~Alive(procs, Inst.name)
            /\ res = None)
    /\ [](pc \in {"clean", "popen", "wait", "resolve", "check", "settle"} =>
            Configured)
    /\ [](pc \in {"popen", "wait"} => Inst.name \notin cached)
    /\ [](pc \in {"wait", "resolve", "check", "settle"} => Started)
    /\ [](pc \in {"wait", "resolve"} => res = None /\ meas = None)
    /\ [](pc = "resolve" => Inst.name \in cached)
    /\ [](pc \in {"check", "settle"} => res # None)
    /\ []((pc = "check" \/ (pc = "settle" /\ ~RightCountry(res[1], Inst)))
            => meas = None)
    /\ [][pc' # pc => <<pc, pc'>> \in StepOrder]_vars

\* The second attempt on an instance has gone through every step to the
\* speed test and is at its last sleep.
C15_Witness ==
    /\ pc = "settle"
    /\ attempt = 2
    /\ meas # None
    /\ Configured
    /\ Started

\* C16: every attempt adds one result to the results collected for its
\* instance, the attempts that end in the wrong-country branch included:
\* after k attempts results holds k results, and a run of N attempts
\* collects N.
C16_OneResultPerAttempt ==
    /\ pc = "settle" => Len(results) = attempt
    /\ pc = "best" => Len(results) = attempts_per_country

\* ------------------------------------------------------------------------
\* test_speed when requests fail
\* ------------------------------------------------------------------------
\* Status request i of the call answered 200.
StatusOk(i) == arg[1].st[i].kind = "ok" /\ arg[1].st[i].status = 200

\* Download i of the call answered 200 with a body that counts.
DownloadOk(i) ==
    /\ arg[1].dl[i].kind = "ok"
    /\ arg[1].dl[i].status = 200
    /\ DownloadCounts(arg[1].dl[i].size, arg[1].dl[i].ms)

\* C17: test_speed returns 0 only when no download gave a measurement and
\* no status request answered 200; when the downloads all fail and one
\* status request at least answers 200, whatever happens to the others, it
\* returns the fallback estimate, which is not 0.
C17_ZeroOnlyWhenAllFail ==
    meas # None =>
       /\ meas[1].speed = 0 =>
             /\ \A i \in 1..3 : ~DownloadOk(i)
             /\ \A i \in 1..3 : ~StatusOk(i)
       /\ ((\A i \in 1..3 : ~DownloadOk(i)) /\ (\E i \in 1..3 : StatusOk(i)))
             => (meas[1].path = "fallback" /\ meas[1].speed > 0)

\* ------------------------------------------------------------------------
\* The two loops of get_ip_and_location
\* ------------------------------------------------------------------------
\* The answer the loop over ip_services breaks on.
IpUsable(r) == r.kind = "ok" /\ Truthy(r.text) /\ FourParts(r.text)

\* The answer the loop over location_services returns on.
GeoUsable(r) ==
    /\ r.kind = "ok"
    /\ r.status = 200
    /\ Len(Upper(r.country)) = 2

\* The first usable answer of the log of a loop is its last answer.
IpFirstIsLast(log) == \A i \in DOMAIN log : IpUsable(log[i]) => i = Len(log)
GeoFirstIsLast(log) == \A i \in DOMAIN log : GeoUsable(log[i]) => i = Len(log)

\* C18: when get_ip_and_location has returned, each loop has requested its
\* services once each at most; the first usable answer of each loop is the
\* last answer the loop received; the address and the ping returned are
\* those of the usable ip answer, and the country and the city are both
\* those of the usable location answer.
C18_FirstUsableWins ==
    pc = "returned" =>
       LET ipLog == arg[1].ipLog
           geoLog == arg[1].geoLog
       IN  /\ Len(ipLog) <= NumIpServices
           /\ Len(geoLog) <= NumGeoServices
           /\ IpFirstIsLast(ipLog)
           /\ GeoFirstIsLast(geoLog)
           /\ (ipLog # <<>> /\ IpUsable(ipLog[Len(ipLog)])) =>
                 /\ res[1].ip = ipLog[Len(ipLog)].text
                 /\ res[1].ping = ipLog[Len(ipLog)].ms
           /\ (geoLog # <<>> /\ GeoUsable(geoLog[Len(geoLog)])) =>
                 /\ res[1].country = Upper(geoLog[Len(geoLog)].country)
                 /\ res[1].city = (IF geoLog[Len(geoLog)].city = None
                                   THEN "Unknown"
                                   ELSE geoLog[Len(geoLog)].city[1])

\* The second ip service and the second location service won, after a
\* first of each that answered something else.
C18_Witness ==
    /\ pc = "returned"
    /\ Len(arg[1].ipLog) = 2
    /\ arg[1].ipLog[1] = IpAnswer(Junk, 20)
    /\ res[1].ip = IpB
    /\ Len(arg[1].geoLog) = 2
    /\ arg[1].geoLog[1] = GeoAnswer(200, "usa", None)
    /\ res[1].country = "FR"
    /\ res[1].city = "Paris"

\* ------------------------------------------------------------------------
\* An address without a location
\* ------------------------------------------------------------------------
\* An ip service gave an address in the call and no location service gave a
\* country of two letters.
AddressOnly ==
    /\ arg # None
    /\ \E i \in DOMAIN arg[1].ip : IpUsable(arg[1].ip[i])
    /\ \A j \in DOMAIN arg[1].geo : ~GeoUsable(arg[1].geo[j])

\* C19: when an ip service gives an address and no location service gives a
\* country of two letters, get_ip_and_location returns that address with
\* the country "Unknown", not the result without an ip; and the attempt
\* that receives a country "Unknown" calls no test_speed and adds no
\* result, whatever the instance.
C19_UnknownCountryRejected ==
    /\ []((pc \in {"check", "settle"} /\ AddressOnly) =>
            /\ res[1].country = "Unknown"
            /\ res[1].city = "Unknown"
            /\ Truthy(res[1].ip)
            /\ \E i \in DOMAIN arg[1].ip :
                  /\ IpUsable(arg[1].ip[i])
                  /\ res[1].ip = arg[1].ip[i].text
                  /\ res[1].ping = arg[1].ip[i].ms
            /\ res[1].geoCalls = NumGeoServices)
    /\ []((pc = "settle" /\ res[1].country = "Unknown") => meas = None)
    /\ [][(pc = "check" /\ res[1].country = "Unknown")
          => (results' = results /\ meas' = None /\ pc' = "settle")]_vars

\* An attempt has resolved an address of unknown country and has gone to
\* its last sleep without a speed test.
C19_Witness ==
    /\ pc = "settle"
    /\ AddressOnly
    /\ res[1].ip = IpB
    /\ res[1].country = "Unknown"
    /\ meas = None
    /\ results = <<>>

PeriodWords == {ToString(p) : p \in 15..45}

\* Text t with the value of its NewCircuitPeriod lines blanked.
SansPeriod(t) ==
    [j \in DOMAIN t |->
        IF t[j][1] = "NewCircuitPeriod" THEN <<"NewCircuitPeriod">> ELSE t[j]]

\* C21: the file create_torrc writes has one NewCircuitPeriod line, whose
\* value is a whole number from 15 to 45; and a call on the same instance
\* with the same use_bridges and bridge data writes the text the call
\* before wrote, but for that value.
C21_SameButPeriod ==
    /\ [](\A n \in Names :
            files[n] # None =>
               /\ Cardinality(LinesOf(files[n][1], "NewCircuitPeriod")) = 1
               /\ \A j \in LinesOf(files[n][1], "NewCircuitPeriod") :
                     /\ Len(files[n][1][j]) = 2
                     /\ files[n][1][j][2] \in PeriodWords)
    /\ [][\A n \in Names :
            (files[n] # None /\ files'[n] # None) =>
               SansPeriod(files'[n][1]) = SansPeriod(files[n][1])]_vars

\* A later call has written a file with bridges and the period 45.
C21_Witness ==
    /\ arg = Some("later")
    /\ use_bridges
    /\ bridge_data # None
    /\ \E n \in Names :
          /\ files[n] # None
          /\ \E j \in DOMAIN files[n][1] :
                files[n][1][j] = <<"NewCircuitPeriod", "45">>

\* ------------------------------------------------------------------------
\* The other instances during the attempts on one
\* ------------------------------------------------------------------------
\* The positions of find_fastest_ip_for_instance.
AttemptSteps ==
    {"stop", "torrc", "clean", "popen", "wait", "resolve", "check", "settle",
     "best"}

\* The instances of the registry other than the one of the loop.
Others == {k \in DOMAIN instances : k # cur}

\* C22: no step of find_fastest_ip_for_instance on one instance changes the
\* processes, the torrc, the data directory or the fields of another
\* instance.
C22_OthersUntouched ==
    [][(pc \in AttemptSteps) =>
         \A k \in Others :
            (/\ ProcsOf(procs', instances[k].name)
                  = ProcsOf(procs, instances[k].name)
             /\ files'[instances[k].name] = files[instances[k].name]
             /\ (instances[k].name \in cached')
                  = (instances[k].name \in cached)
             /\ instances'[k] = instances[k])]_vars

\* ------------------------------------------------------------------------
\* The registry after additions and removals
\* ------------------------------------------------------------------------
\* The country codes of the model that are two upper-case letters.
TwoLetterCodes == {"US", "FR"}

\* C23: whatever has been added and removed, no two instances of the
\* registry have a name or a port in common and every country is two
\* upper-case letters; and a step that adds an instance adds one whose name
\* and port were not in the registry.
C23_RegistryWellFormed ==
    /\ [](\A j, k \in DOMAIN instances :
            j # k => /\ instances[j].name # instances[k].name
                     /\ instances[j].port # instances[k].port)
    /\ [](\A k \in DOMAIN instances : instances[k].country \in TwoLetterCodes)
    /\ [][Len(instances') > Len(instances) =>
            /\ Len(instances') = Len(instances) + 1
            /\ instances'[Len(instances')].name \notin NameSet(instances)
            /\ \A k \in DOMAIN instances :
                  /\ instances'[k] = instances[k]
                  /\ instances'[Len(instances')].port # instances[k].port]_vars

\* ------------------------------------------------------------------------
\* A run to its end
\* ------------------------------------------------------------------------
\* Every statement of a run is a blocking call that returns (a sleep, a
\* subprocess.run, a request with its timeout), so a run that can take a
\* step does.
SpecFair == Spec /\ WF_vars(Next)

\* C24: a run that has started goes on to the ranking, having made
\* attempts_per_country attempts on each instance in turn and never more,
\* whatever the attempts resulted in.
C24_RunCompletes ==
    /\ [](pc \in AttemptSteps => attempt <= attempts_per_country)
    /\ [](pc = "ranked" =>
            /\ cur = Len(instances)
            /\ attempt = attempts_per_country
            /\ ranking # None)
    /\ [][(pc = "settle" /\ pc' = "best") => attempt = attempts_per_country]_vars
    /\ [][(pc = "best" /\ pc' = "sort") => cur = Len(instances)]_vars
    /\ ((pc = "stop") ~> (pc = "ranked"))

\* ------------------------------------------------------------------------
\* The process an instance is left with
\* ------------------------------------------------------------------------
\* The attempts whose result is the one find_fastest... records, when every
\* attempt of the instance has appended a result (results[k] is then the
\* result of attempt k).
BestAttempts == {k \in DOMAIN results : results[k] = MaxBySpeed(results)}

\* C25: when the attempts of an instance are over and each has given a
\* result, the process of the instance that is running is the one started
\* in an attempt whose result is the best one, the one about to be recorded.
C25_LiveProcessIsBest ==
    (pc = "best" /\ Len(results) = attempts_per_country) =>
       \E p \in ProcsOf(procs, Inst.name) : p.attempt \in BestAttempts

\* ------------------------------------------------------------------------
\* Where the fields of an instance come from
\* ------------------------------------------------------------------------
\* C26: a step of test_all_instances that changes the ip, city, ping or
\* speed of an instance writes them from a resolution (the one just made,
\* in res) whose country is the country of the instance.
C26_WrittenFromOwnCountry ==
    [][\A k \in DOMAIN instances :
          ResultFields(instances'[k]) # ResultFields(instances[k]) =>
             /\ res # None
             /\ instances'[k].ip = Some(res[1].ip)
             /\ res[1].country = instances[k].country]_vars

====
